---- MODULE Spec2Model ----
(***************************************************************************)
(* Model of news/signals.py: the signal receivers of the news application,  *)
(* the deferred notification action process_post_notifications and the      *)
(* retention sweep cleanup_expired_tokens.                                  *)
(*                                                                          *)
(* The persistence layer, the cache and the email service are collaborators.*)
(* They are modelled by their contracts:                                    *)
(*   - transaction.on_commit(f) runs f at once when no atomic block is      *)
(*     open, and otherwise queues f until the block commits; a rollback     *)
(*     discards the queue and the block's writes;                           *)
(*   - cache.delete(key) removes the key and never raises;                  *)
(*   - every EmailService call may raise;                                   *)
(*   - a persistence write may raise where a handler input says so.         *)
(***************************************************************************)
EXTENDS Integers, Sequences, FiniteSets

\* ---------------------------------------------------------------- bounds
Posts == {1, 2}
Users == {1, 2}
Cats == {1, 2}
MaxTxn == 2
MaxPending == 2
MaxComments == 1
MaxNow == 9

\* ------------------------------------------------------ program constants
NEWS == "NW"
ARTICLE == "AR"
PostTypes == {NEWS, ARTICLE}
RetentionDays == 7

M2MActions == {"pre_add", "post_add", "pre_remove", "post_remove", "pre_clear", "post_clear"}

VARIABLES
    phase,      \* "idle" (autocommit), "atomic" (block open), "hooks" (commit hooks running)
    curTxn,     \* id of the open atomic block, 0 in autocommit
    outcome,    \* txn id -> "unused" | "open" | "committed" | "aborted"
    db,         \* post id -> stored row of the post
    saved,      \* db as it was when the open atomic block began
    pending,    \* callbacks registered with transaction.on_commit, in order
    ranInTxn,   \* post id -> runs of process_post_notifications for the last transaction
    lastRun,    \* the run of process_post_notifications the last step made, if any
    cache,      \* the keys present in the cache
    val,        \* list key -> ids of the posts its cached value lists ({} when absent)
    ev,         \* the signal the last step delivered, if any, and what its receiver did
    subs,       \* the Subscription rows, as <<user id, category id>>
    tokens,     \* user id -> the user's ActivationToken row
    now,        \* the clock, in days
    groups,     \* user id -> names of the groups the user is in
    groupRows,  \* names of the Group rows that exist
    lastSweep,  \* the call of cleanup_expired_tokens the last step made, if any
    users,      \* user id -> the User row
    authors     \* user id -> number of Author rows of the user

vars == <<phase, curTxn, outcome, db, saved, pending, ranInTxn, lastRun, cache, val, ev,
          subs, tokens, now, groups, groupRows, lastSweep, users, authors>>

postVars == <<phase, curTxn, outcome, db, saved, pending, ranInTxn, lastRun>>
tokenVars == <<tokens, now, groups, groupRows, lastSweep>>
userVars == <<users, authors>>

\* ------------------------------------------------------------- cache keys
\* f"{tmpl}" with the id substituted: the template and the id decide the key.
Key(tmpl, id) == [tmpl |-> tmpl, id |-> id]

PostCacheKeysWithoutPost(id) ==
    << Key("latest_news", 0), Key("news_list", 0), Key("categories_list", 0) >>

PostCacheKeys(id) ==
    << Key("latest_news", 0), Key("news_list", 0), Key("post_{}", id), Key("categories_list", 0) >>

CommentCacheKeys(postId) ==
    << Key("post_{}_comments", postId), Key("post_{}_comments_count", postId) >>

SubscriptionCacheKeys(userId, catId) ==
    << Key("user_{}_subscriptions", userId), Key("category_{}_subscribers_count", catId) >>

PostKeys ==
    {Key("latest_news", 0), Key("news_list", 0), Key("categories_list", 0)}
      \cup {Key("post_{}", p) : p \in Posts}
      \cup {Key("post_{}_comments", p) : p \in Posts}
      \cup {Key("post_{}_comments_count", p) : p \in Posts}

SubscriptionKeys ==
    {Key("user_{}_subscriptions", u) : u \in Users}
      \cup {Key("category_{}_subscribers_count", c) : c \in Cats}

\* The keys whose value is a list of posts.
ListKeys == {Key("latest_news", 0), Key("news_list", 0)}

Range(s) == {s[i] : i \in 1..Len(s)}

\* cache.delete(key) for every key of the sequence, in order
CacheDeleteAll(c, keys) == c \ Range(keys)

\* A deleted key loses its value; nothing but a reader's refill writes one.
KeepValues == val' = [k \in ListKeys |-> IF k \in cache' THEN val[k] ELSE {}]

\* ------------------------------------------------------------ stored rows
NoPost == [exists |-> FALSE, ptype |-> NEWS, ncomments |-> 0]

NoRun == [ran |-> FALSE, post |-> 0, txn |-> 0, found |-> FALSE, stored |-> NEWS, snap |-> NEWS,
          emailFailed |-> FALSE, news |-> 0, article |-> 0, raised |-> FALSE, log |-> "none"]

NoEvent == [kind |-> "none", id |-> 0, id2 |-> 0, created |-> FALSE, action |-> "none",
            scheduled |-> FALSE, deletes |-> << >>, was |-> FALSE, act |-> FALSE,
            emails |-> 0, grants |-> 0, urlToken |-> 0, log |-> "none", raised |-> FALSE]

\* ------------------------------------------- process_post_notifications
\* row: the row Post.objects.get(pk=post.pk) finds; snap: post_type of the instance
\* the lambda captured; emailOk: whether the email collaborator succeeds.
ProcessPostNotificationsStale(row, snap, emailOk) ==
    IF ~row.exists
      THEN [found |-> FALSE, news |-> 0, article |-> 0, raised |-> FALSE, log |-> "error_not_found"]
      ELSE IF snap = NEWS
        THEN [found |-> TRUE, news |-> 1, article |-> 0, raised |-> FALSE,
              log |-> IF emailOk THEN "info" ELSE "error_critical"]
        ELSE [found |-> TRUE, news |-> 0, article |-> 1, raised |-> FALSE,
              log |-> IF emailOk THEN "info" ELSE "error_critical"]

ProcessPostNotificationsNoCatch(row, snap, emailOk) ==
    IF ~row.exists
      THEN [found |-> FALSE, news |-> 0, article |-> 0, raised |-> FALSE, log |-> "error_not_found"]
      ELSE IF row.ptype = NEWS
        THEN [found |-> TRUE, news |-> 1, article |-> 0, raised |-> ~emailOk,
              log |-> IF emailOk THEN "info" ELSE "none"]
        ELSE [found |-> TRUE, news |-> 0, article |-> 1, raised |-> ~emailOk,
              log |-> IF emailOk THEN "info" ELSE "none"]

ProcessPostNotificationsIgnoreMissing(row, snap, emailOk) ==
    IF (IF row.exists THEN row.ptype ELSE snap) = NEWS
      THEN [found |-> TRUE, news |-> 1, article |-> 0, raised |-> FALSE,
            log |-> IF emailOk THEN "info" ELSE "error_critical"]
      ELSE [found |-> TRUE, news |-> 0, article |-> 1, raised |-> FALSE,
            log |-> IF emailOk THEN "info" ELSE "error_critical"]

ProcessPostNotifications(row, snap, emailOk) ==
    IF ~row.exists
      THEN [found |-> FALSE, news |-> 0, article |-> 0, raised |-> FALSE, log |-> "error_not_found"]
      ELSE IF row.ptype = NEWS
        THEN [found |-> TRUE, news |-> 1, article |-> 0, raised |-> FALSE,
              log |-> IF emailOk THEN "info" ELSE "error_critical"]
        ELSE IF row.ptype = ARTICLE
          THEN [found |-> TRUE, news |-> 0, article |-> 1, raised |-> FALSE,
                log |-> IF emailOk THEN "info" ELSE "error_critical"]
          ELSE [found |-> TRUE, news |-> 0, article |-> 0, raised |-> FALSE, log |-> "none"]

\* The record of one run: what the run was given and what it did.
RunRecord(p, t, row, snap, emailOk) ==
    LET r == ProcessPostNotifications(row, snap, emailOk)
    IN  [ran |-> TRUE, post |-> p, txn |-> t, found |-> r.found, stored |-> row.ptype, snap |-> snap,
         emailFailed |-> (row.exists /\ ~emailOk), news |-> r.news, article |-> r.article,
         raised |-> r.raised, log |-> r.log]

NoUser == [exists |-> FALSE, is_staff |-> FALSE]

NoToken == [exists |-> FALSE, activated |-> FALSE, created_at |-> 0]

\* retNone: the call returned None; ret: the number it returned otherwise.
NoSweep == [ran |-> FALSE, failed |-> FALSE, deleted |-> 0, retNone |-> TRUE, ret |-> 0,
            raised |-> FALSE, log |-> "none"]

Init ==
    /\ phase = "idle"
    /\ curTxn = 0
    /\ outcome = [t \in 1..MaxTxn |-> "unused"]
    /\ db = [p \in Posts |-> NoPost]
    /\ saved = [p \in Posts |-> NoPost]
    /\ pending = << >>
    /\ ranInTxn = [p \in Posts |-> 0]
    /\ lastRun = NoRun
    /\ cache = {}
    /\ val = [k \in ListKeys |-> {}]
    /\ ev = NoEvent
    /\ subs = {}
    /\ tokens = [u \in Users |-> NoToken]
    /\ now = 0
    /\ groups = [u \in Users |-> {}]
    /\ groupRows = {}
    /\ lastSweep = NoSweep
    /\ users = [u \in Users |-> NoUser]
    /\ authors = [u \in Users |-> 0]

\* ------------------------------------------------- transaction.on_commit
NoRuns == [p \in Posts |-> 0]

\* The receiver registers no callback.
NoSchedule ==
    /\ pending' = pending
    /\ lastRun' = NoRun
    /\ ranInTxn' = IF phase = "atomic" THEN ranInTxn ELSE NoRuns

\* transaction.on_commit(lambda: process_post_notifications(instance)):
\* queued while an atomic block is open, run at once in autocommit.
\* row is the stored row of the post after the write that sent the signal.
OnCommit(p, row, emailOk) ==
    IF phase = "atomic"
      THEN /\ pending' = Append(pending, [post |-> p, txn |-> curTxn, snap |-> row.ptype])
           /\ lastRun' = NoRun
           /\ ranInTxn' = ranInTxn
      ELSE /\ lastRun' = RunRecord(p, 0, row, row.ptype, emailOk)
           /\ ranInTxn' = [q \in Posts |-> IF q = p THEN 1 ELSE 0]
           /\ pending' = pending

\* ------------------------------------------ handle_post_categories_changed
HandlePostCategoriesChangedImmediate(p, action, row, emailOk) ==
    /\ IF action = "post_add"
         THEN /\ lastRun' = RunRecord(p, curTxn, row, row.ptype, emailOk)
              /\ ranInTxn' = [ranInTxn EXCEPT ![p] = @ + 1]
              /\ pending' = pending
         ELSE NoSchedule
    /\ ev' = [NoEvent EXCEPT !.kind = "m2m_changed", !.id = p, !.action = action,
                             !.scheduled = (action = "post_add")]
    /\ cache' = cache

HandlePostCategoriesChanged(p, action, row, emailOk) ==
    /\ IF action = "post_add"
         THEN OnCommit(p, row, emailOk)
         ELSE NoSchedule
    /\ ev' = [NoEvent EXCEPT !.kind = "m2m_changed", !.id = p, !.action = action,
                             !.scheduled = (action = "post_add")]
    /\ cache' = cache

\* ------------------------------------------------------- handle_post_save
HandlePostSaveUnguarded(p, created, row, withCats, emailOk) ==
    /\ IF withCats
         THEN OnCommit(p, row, emailOk)
         ELSE NoSchedule
    /\ cache' = CacheDeleteAll(cache, PostCacheKeys(p))
    /\ ev' = [NoEvent EXCEPT !.kind = "post_save", !.id = p, !.created = created,
                             !.scheduled = withCats, !.deletes = PostCacheKeys(p)]

\* withCats: what instance.categories.exists() answers for the new row.
HandlePostSave(p, created, row, withCats, emailOk) ==
    IF created
      THEN /\ IF withCats
                THEN OnCommit(p, row, emailOk)
                ELSE NoSchedule
           /\ cache' = CacheDeleteAll(cache, PostCacheKeys(p))
           /\ ev' = [NoEvent EXCEPT !.kind = "post_save", !.id = p, !.created = TRUE,
                                    !.scheduled = withCats, !.deletes = PostCacheKeys(p)]
      ELSE /\ NoSchedule
           /\ cache' = cache
           /\ ev' = [NoEvent EXCEPT !.kind = "post_save", !.id = p]

\* ----------------------------------------------------- handle_new_comment
HandleNewComment(postId, created) ==
    IF created
      THEN /\ cache' = CacheDeleteAll(cache, CommentCacheKeys(postId))
           /\ ev' = [NoEvent EXCEPT !.kind = "comment_save", !.id = postId, !.created = TRUE,
                                    !.deletes = CommentCacheKeys(postId)]
      ELSE /\ cache' = cache
           /\ ev' = [NoEvent EXCEPT !.kind = "comment_save", !.id = postId]

\* ------------------------------------------------ the enclosing transaction
\* In autocommit every write is durable at once: saved follows db.
Durable == saved' = IF phase = "atomic" THEN saved ELSE db'

Begin ==
    /\ phase = "idle"
    /\ \E t \in 1..MaxTxn :
         /\ outcome[t] = "unused"
         /\ \A s \in 1..(t - 1) : outcome[s] # "unused"
         /\ curTxn' = t
         /\ outcome' = [outcome EXCEPT ![t] = "open"]
    /\ phase' = "atomic"
    /\ saved' = db
    /\ ranInTxn' = NoRuns
    /\ lastRun' = NoRun
    /\ ev' = NoEvent
    /\ UNCHANGED <<db, pending, cache, subs>>
    /\ UNCHANGED tokenVars
    /\ UNCHANGED userVars
    /\ KeepValues

Commit ==
    /\ phase = "atomic"
    /\ outcome' = [outcome EXCEPT ![curTxn] = "committed"]
    /\ phase' = IF pending = << >> THEN "idle" ELSE "hooks"
    /\ curTxn' = 0
    /\ saved' = db
    /\ lastRun' = NoRun
    /\ ev' = NoEvent
    /\ UNCHANGED <<db, pending, ranInTxn, cache, subs>>
    /\ UNCHANGED tokenVars
    /\ UNCHANGED userVars
    /\ KeepValues

Rollback ==
    /\ phase = "atomic"
    /\ outcome' = [outcome EXCEPT ![curTxn] = "aborted"]
    /\ phase' = "idle"
    /\ curTxn' = 0
    /\ db' = saved
    /\ pending' = << >>
    /\ lastRun' = NoRun
    /\ ev' = NoEvent
    /\ UNCHANGED <<saved, ranInTxn, cache, subs>>
    /\ UNCHANGED tokenVars
    /\ UNCHANGED userVars
    /\ KeepValues

\* One queued callback runs: process_post_notifications(instance).
RunDeferred ==
    /\ phase = "hooks"
    /\ pending # << >>
    /\ \E emailOk \in BOOLEAN :
         LET cb == Head(pending)
         IN  /\ lastRun' = RunRecord(cb.post, cb.txn, db[cb.post], cb.snap, emailOk)
             /\ ranInTxn' = [ranInTxn EXCEPT ![cb.post] = @ + 1]
    /\ pending' = Tail(pending)
    /\ phase' = IF Tail(pending) = << >> THEN "idle" ELSE "hooks"
    /\ ev' = NoEvent
    /\ UNCHANGED <<curTxn, outcome, db, saved, cache, subs>>
    /\ UNCHANGED tokenVars
    /\ UNCHANGED userVars
    /\ KeepValues

\* ------------------------------------------------------------ post events
CreatePost ==
    /\ phase \in {"idle", "atomic"}
    /\ \E p \in Posts, t \in PostTypes, withCats \in BOOLEAN, emailOk \in BOOLEAN :
         /\ ~db[p].exists
         /\ (phase = "atomic" /\ withCats) => Len(pending) < MaxPending
         /\ db' = [db EXCEPT ![p] = [exists |-> TRUE, ptype |-> t, ncomments |-> 0]]
         /\ HandlePostSave(p, TRUE, db'[p], withCats, emailOk)
    /\ Durable
    /\ UNCHANGED <<phase, curTxn, outcome, subs>>
    /\ UNCHANGED tokenVars
    /\ UNCHANGED userVars
    /\ KeepValues

\* A save of a stored post through another instance than the one a callback holds.
SavePost ==
    /\ phase \in {"idle", "atomic"}
    /\ \E p \in Posts, t \in PostTypes :
         /\ db[p].exists
         /\ db' = [db EXCEPT ![p].ptype = t]
         /\ HandlePostSave(p, FALSE, db'[p], FALSE, TRUE)
    /\ Durable
    /\ UNCHANGED <<phase, curTxn, outcome, subs>>
    /\ UNCHANGED tokenVars
    /\ UNCHANGED userVars
    /\ KeepValues

DeletePost ==
    /\ phase \in {"idle", "atomic"}
    /\ \E p \in Posts :
         /\ db[p].exists
         /\ db' = [db EXCEPT ![p] = NoPost]
    /\ Durable
    /\ NoSchedule
    /\ ev' = NoEvent
    /\ UNCHANGED <<phase, curTxn, outcome, cache, subs>>
    /\ UNCHANGED tokenVars
    /\ UNCHANGED userVars
    /\ KeepValues

\* post.categories.add/remove/clear: the related manager opens an atomic block
\* and sends m2m_changed inside it.
M2MChanged ==
    /\ phase = "atomic"
    /\ \E p \in Posts, action \in M2MActions, emailOk \in BOOLEAN :
         /\ db[p].exists
         /\ action = "post_add" => Len(pending) < MaxPending
         /\ HandlePostCategoriesChanged(p, action, db[p], emailOk)
    /\ UNCHANGED <<phase, curTxn, outcome, db, saved, subs>>
    /\ UNCHANGED tokenVars
    /\ UNCHANGED userVars
    /\ KeepValues

CreateComment ==
    /\ phase \in {"idle", "atomic"}
    /\ \E p \in Posts :
         /\ db[p].exists
         /\ db[p].ncomments < MaxComments
         /\ db' = [db EXCEPT ![p].ncomments = @ + 1]
         /\ HandleNewComment(p, TRUE)
    /\ Durable
    /\ NoSchedule
    /\ UNCHANGED <<phase, curTxn, outcome, subs>>
    /\ UNCHANGED tokenVars
    /\ UNCHANGED userVars
    /\ KeepValues

SaveComment ==
    /\ phase \in {"idle", "atomic"}
    /\ \E p \in Posts :
         /\ db[p].exists
         /\ db[p].ncomments > 0
         /\ HandleNewComment(p, FALSE)
    /\ NoSchedule
    /\ UNCHANGED <<phase, curTxn, outcome, db, saved, subs>>
    /\ UNCHANGED tokenVars
    /\ UNCHANGED userVars
    /\ KeepValues

\* A reader stores a value under a key of a post or of its comments that it missed.
FillKey(keys) ==
    /\ \E k \in keys :
         /\ k \notin cache
         /\ cache' = cache \cup {k}
         /\ val' = IF k \in ListKeys
                     THEN [val EXCEPT ![k] = {p \in Posts : saved[p].exists}]
                     ELSE val
    /\ ev' = NoEvent
    /\ lastRun' = NoRun
    /\ UNCHANGED <<phase, curTxn, outcome, db, saved, pending, ranInTxn, subs>>
    /\ UNCHANGED tokenVars
    /\ UNCHANGED userVars

FillPostKey == FillKey(PostKeys)

\* A reader of the post lists in another connection, at any time.
FillListKey == FillKey(ListKeys)

\* ---------------------------------------------------------- subscriptions
\* The rows of this part are written in autocommit (phase = "idle").
HandleNewSubscription(userId, catId, created) ==
    IF created
      THEN /\ cache' = CacheDeleteAll(cache, SubscriptionCacheKeys(userId, catId))
           /\ ev' = [NoEvent EXCEPT !.kind = "subscription_save", !.id = userId, !.id2 = catId,
                                    !.created = TRUE,
                                    !.deletes = SubscriptionCacheKeys(userId, catId)]
      ELSE /\ cache' = cache
           /\ ev' = [NoEvent EXCEPT !.kind = "subscription_save", !.id = userId, !.id2 = catId]

HandleSubscriptionRemovedUserOnly(userId, catId) ==
    /\ cache' = cache \ {Key("user_{}_subscriptions", userId)}
    /\ ev' = [NoEvent EXCEPT !.kind = "subscription_delete", !.id = userId, !.id2 = catId,
                             !.deletes = << Key("user_{}_subscriptions", userId) >>]

HandleSubscriptionRemoved(userId, catId) ==
    /\ cache' = CacheDeleteAll(cache, SubscriptionCacheKeys(userId, catId))
    /\ ev' = [NoEvent EXCEPT !.kind = "subscription_delete", !.id = userId, !.id2 = catId,
                             !.deletes = SubscriptionCacheKeys(userId, catId)]

CreateSubscription ==
    /\ phase = "idle"
    /\ \E u \in Users, c \in Cats :
         /\ <<u, c>> \notin subs
         /\ subs' = subs \cup {<<u, c>>}
         /\ HandleNewSubscription(u, c, TRUE)
    /\ UNCHANGED postVars
    /\ UNCHANGED tokenVars
    /\ UNCHANGED userVars
    /\ KeepValues

SaveSubscription ==
    /\ phase = "idle"
    /\ \E u \in Users, c \in Cats :
         /\ <<u, c>> \in subs
         /\ HandleNewSubscription(u, c, FALSE)
    /\ UNCHANGED subs
    /\ UNCHANGED postVars
    /\ UNCHANGED tokenVars
    /\ UNCHANGED userVars
    /\ KeepValues

DeleteSubscription ==
    /\ phase = "idle"
    /\ \E u \in Users, c \in Cats :
         /\ <<u, c>> \in subs
         /\ subs' = subs \ {<<u, c>>}
         /\ HandleSubscriptionRemoved(u, c)
    /\ UNCHANGED postVars
    /\ UNCHANGED tokenVars
    /\ UNCHANGED userVars
    /\ KeepValues

\* A reader stores a value under a subscription key it missed.
FillSubscriptionKey ==
    /\ phase = "idle"
    /\ \E k \in SubscriptionKeys :
         /\ k \notin cache
         /\ cache' = cache \cup {k}
    /\ ev' = NoEvent
    /\ UNCHANGED subs
    /\ UNCHANGED postVars
    /\ UNCHANGED tokenVars
    /\ UNCHANGED userVars
    /\ KeepValues

\* ------------------------------------------------------ activation tokens
\* handle_activation_token_save for the token of a user whose groups are grp.
\* emails: calls of send_activation_success_email; grants: calls of groups.add.
HandleActivationTokenSave(grp, created, activated, emailOk) ==
    IF activated /\ ~created
      THEN IF emailOk
             THEN [emails |-> 1, grants |-> IF "authors" \in grp THEN 0 ELSE 1,
                   groups |-> grp \cup {"authors"}, log |-> "info", raised |-> FALSE]
             ELSE [emails |-> 1, grants |-> 0, groups |-> grp, log |-> "error", raised |-> FALSE]
      ELSE [emails |-> 0, grants |-> 0, groups |-> grp, log |-> "none", raised |-> FALSE]

\* Group.objects.get_or_create(name='authors') runs when the handler grants the group.
GroupRowsAfter(rows, h) == IF h.grants > 0 THEN rows \cup {"authors"} ELSE rows

\* ActivationToken.create_token(user), or a token row created in another way.
CreateToken ==
    /\ phase = "idle"
    /\ \E u \in Users, act \in BOOLEAN, emailOk \in BOOLEAN :
         /\ ~tokens[u].exists
         /\ tokens' = [tokens EXCEPT ![u] = [exists |-> TRUE, activated |-> act, created_at |-> now]]
         /\ LET h == HandleActivationTokenSave(groups[u], TRUE, act, emailOk)
            IN  /\ groups' = [groups EXCEPT ![u] = h.groups]
                /\ groupRows' = GroupRowsAfter(groupRows, h)
                /\ ev' = [NoEvent EXCEPT !.kind = "token_save", !.id = u, !.created = TRUE,
                                         !.act = act, !.emails = h.emails, !.grants = h.grants,
                                         !.log = h.log, !.raised = h.raised]
    /\ lastSweep' = NoSweep
    /\ UNCHANGED <<now, cache, subs>>
    /\ UNCHANGED postVars
    /\ UNCHANGED userVars
    /\ KeepValues

\* token.save() of a stored token; the state machine never leaves "activated".
SaveToken ==
    /\ phase = "idle"
    /\ \E u \in Users, act \in BOOLEAN, emailOk \in BOOLEAN :
         /\ tokens[u].exists
         /\ tokens[u].activated => act
         /\ tokens' = [tokens EXCEPT ![u].activated = act]
         /\ LET h == HandleActivationTokenSave(groups[u], FALSE, act, emailOk)
            IN  /\ groups' = [groups EXCEPT ![u] = h.groups]
                /\ groupRows' = GroupRowsAfter(groupRows, h)
                /\ ev' = [NoEvent EXCEPT !.kind = "token_save", !.id = u,
                                         !.was = tokens[u].activated, !.act = act,
                                         !.emails = h.emails, !.grants = h.grants,
                                         !.log = h.log, !.raised = h.raised]
    /\ lastSweep' = NoSweep
    /\ UNCHANGED <<now, cache, subs>>
    /\ UNCHANGED postVars
    /\ UNCHANGED userVars
    /\ KeepValues

\* handle_social_signup; dbFail names the persistence call that raises, if any.
SocialAccountAdded ==
    /\ phase = "idle"
    /\ \E u \in Users, dbFail \in {"none", "get_or_create", "save"}, emailOk \in BOOLEAN :
         LET fresh   == ~tokens[u].exists
             got     == IF fresh
                          THEN [exists |-> TRUE, activated |-> FALSE, created_at |-> now]
                          ELSE tokens[u]
             h1      == HandleActivationTokenSave(groups[u], TRUE, FALSE, emailOk)
             h2      == HandleActivationTokenSave(IF fresh THEN h1.groups ELSE groups[u],
                                                  FALSE, TRUE, emailOk)
             e       == [NoEvent EXCEPT !.kind = "social_account_added", !.id = u,
                                        !.created = fresh, !.was = got.activated]
         IN  IF dbFail = "get_or_create"
               THEN /\ UNCHANGED <<tokens, groups, groupRows>>
                    /\ ev' = [e EXCEPT !.raised = TRUE]
               ELSE IF dbFail = "save"
                 THEN /\ tokens' = [tokens EXCEPT ![u] = got]
                      /\ groups' = [groups EXCEPT ![u] = IF fresh THEN h1.groups ELSE @]
                      /\ groupRows' = groupRows
                      /\ ev' = [e EXCEPT !.raised = TRUE]
                 ELSE /\ tokens' = [tokens EXCEPT ![u] = [got EXCEPT !.activated = TRUE]]
                      /\ groups' = [groups EXCEPT ![u] = h2.groups]
                      /\ groupRows' = GroupRowsAfter(groupRows, h2)
                      /\ ev' = [e EXCEPT !.act = TRUE,
                                         !.emails = (IF fresh THEN h1.emails ELSE 0) + h2.emails,
                                         !.grants = (IF fresh THEN h1.grants ELSE 0) + h2.grants,
                                         !.log = h2.log, !.raised = h2.raised]
    /\ lastSweep' = NoSweep
    /\ UNCHANGED <<now, cache, subs>>
    /\ UNCHANGED postVars
    /\ UNCHANGED userVars
    /\ KeepValues

\* A day passes.
Tick ==
    /\ phase = "idle"
    /\ now < MaxNow
    /\ now' = now + 1
    /\ ev' = NoEvent
    /\ lastSweep' = NoSweep
    /\ UNCHANGED <<tokens, groups, groupRows, cache, subs>>
    /\ UNCHANGED postVars
    /\ UNCHANGED userVars
    /\ KeepValues

\* ActivationToken.objects.filter(activated=False, created_at__lt=now - timedelta(days=7))
ExpiredInclusive(tok, t) ==
    tok.exists /\ ~tok.activated /\ tok.created_at <= t - RetentionDays

Expired(tok, t) ==
    tok.exists /\ ~tok.activated /\ tok.created_at < t - RetentionDays

\* cleanup_expired_tokens(); dbFail names the query that raises, if any.
CleanupExpiredTokens ==
    /\ phase = "idle"
    /\ \E dbFail \in {"none", "count", "delete"} :
         LET count == Cardinality({u \in Users : Expired(tokens[u], now)})
         IN  /\ dbFail = "delete" => count > 0
             /\ IF dbFail = "none"
                  THEN /\ tokens' = [u \in Users |->
                                       IF count > 0 /\ Expired(tokens[u], now) THEN NoToken
                                                                              ELSE tokens[u]]
                       /\ lastSweep' = [NoSweep EXCEPT !.ran = TRUE, !.deleted = count,
                                                       !.log = IF count > 0 THEN "info" ELSE "none"]
                  ELSE /\ tokens' = tokens
                       /\ lastSweep' = [NoSweep EXCEPT !.ran = TRUE, !.failed = TRUE,
                                                       !.log = "error"]
    /\ ev' = NoEvent
    /\ UNCHANGED <<now, groups, groupRows, cache, subs>>
    /\ UNCHANGED postVars
    /\ UNCHANGED userVars
    /\ KeepValues

\* hasattr(instance, 'author'): Author.user is one-to-one, so the reverse accessor
\* user.author exists exactly when the user has an Author row.
HasAuthor(n) == n > 0

\* Author.objects.get_or_create(user=user)
GetOrCreateAuthor(n) == IF n = 0 THEN 1 ELSE n

\* handle_user_post_save: a created non-staff user outside 'common' joins it and gets
\* an Author.
HandleUserPostSave(created, staff, grp, rows, n) ==
    IF created /\ ~staff /\ "common" \notin grp
      THEN [groups |-> grp \cup {"common"}, rows |-> rows \cup {"common"},
            authors |-> GetOrCreateAuthor(n)]
      ELSE [groups |-> grp, rows |-> rows, authors |-> n]

CreateAuthorProfileAlways(created, n) ==
    IF created THEN n + 1 ELSE n

\* create_author_profile
CreateAuthorProfile(created, n) ==
    IF created /\ ~HasAuthor(n) THEN n + 1 ELSE n

\* post_save of User: handle_user_post_save, then create_author_profile.
UserPostSave(u, created, staff) ==
    LET h == HandleUserPostSave(created, staff, groups[u], groupRows, authors[u])
    IN  /\ groups' = [groups EXCEPT ![u] = h.groups]
        /\ groupRows' = h.rows
        /\ authors' = [authors EXCEPT ![u] = CreateAuthorProfile(created, h.authors)]
        /\ ev' = [NoEvent EXCEPT !.kind = "user_save", !.id = u, !.created = created]

\* User.objects.create(...), staff or not.
CreateUser ==
    /\ phase = "idle"
    /\ \E u \in Users, staff \in BOOLEAN :
         /\ ~users[u].exists
         /\ users' = [users EXCEPT ![u] = [exists |-> TRUE, is_staff |-> staff]]
         /\ UserPostSave(u, TRUE, staff)
    /\ lastSweep' = NoSweep
    /\ UNCHANGED <<tokens, now, cache, subs>>
    /\ UNCHANGED postVars
    /\ KeepValues

\* user.save() of a stored user; is_staff may change.
SaveUser ==
    /\ phase = "idle"
    /\ \E u \in Users, staff \in BOOLEAN :
         /\ users[u].exists
         /\ users' = [users EXCEPT ![u].is_staff = staff]
         /\ UserPostSave(u, FALSE, staff)
    /\ lastSweep' = NoSweep
    /\ UNCHANGED <<tokens, now, cache, subs>>
    /\ UNCHANGED postVars
    /\ KeepValues

\* The statement of handle_user_signed_up's try block that raises: 5 when none does.
SignupStage(fail) ==
    CASE fail = "group" -> 1
      [] fail = "author" -> 2
      [] fail = "token" -> 3
      [] fail = "email" -> 4
      [] OTHER -> 5

\* ActivationToken.create_token(user): a new token that is not activated.
CreateTokenRow(t) == [exists |-> TRUE, activated |-> FALSE, created_at |-> t]

HandleUserSignedUpMailFirst(u, fail) ==
    LET done(k) == SignupStage(fail) > k /\ fail # "email"
    IN  /\ groupRows' = IF done(1) THEN groupRows \cup {"common"} ELSE groupRows
        /\ groups' = [groups EXCEPT ![u] = IF done(1) THEN @ \cup {"common"} ELSE @]
        /\ authors' = [authors EXCEPT ![u] = IF done(2) THEN GetOrCreateAuthor(@) ELSE @]
        /\ tokens' = [tokens EXCEPT ![u] = IF done(3) THEN CreateTokenRow(now) ELSE @]
        /\ ev' = [NoEvent EXCEPT !.kind = "user_signed_up", !.id = u,
                                 !.emails = IF SignupStage(fail) > 3 THEN 1 ELSE 0,
                                 !.urlToken = IF SignupStage(fail) > 3 THEN u ELSE 0,
                                 !.log = IF SignupStage(fail) > 4 THEN "info" ELSE "error"]

\* handle_user_signed_up: the statements before the one that raises have run, the
\* except branch logs, nothing is re-raised. The token's own post_save (created) does
\* nothing.
HandleUserSignedUp(u, fail) ==
    LET done(k) == SignupStage(fail) > k
    IN  /\ groupRows' = IF done(1) THEN groupRows \cup {"common"} ELSE groupRows
        /\ groups' = [groups EXCEPT ![u] = IF done(1) THEN @ \cup {"common"} ELSE @]
        /\ authors' = [authors EXCEPT ![u] = IF done(2) THEN GetOrCreateAuthor(@) ELSE @]
        /\ tokens' = [tokens EXCEPT ![u] = IF done(3) THEN CreateTokenRow(now) ELSE @]
        /\ ev' = [NoEvent EXCEPT !.kind = "user_signed_up", !.id = u,
                                 !.emails = IF done(3) THEN 1 ELSE 0,
                                 !.urlToken = IF done(3) THEN u ELSE 0,
                                 !.log = IF done(4) THEN "info" ELSE "error"]

\* allauth's user_signed_up, sent for a stored user who has no token yet.
UserSignedUp ==
    /\ phase = "idle"
    /\ \E u \in Users, fail \in {"none", "group", "author", "token", "email"} :
         /\ users[u].exists
         /\ ~tokens[u].exists
         /\ HandleUserSignedUp(u, fail)
    /\ lastSweep' = NoSweep
    /\ UNCHANGED <<users, now, cache, subs>>
    /\ UNCHANGED postVars
    /\ KeepValues

\* cleanup_user_group: user.groups.filter(name='authors') is a queryset of Group rows,
\* and delete() on it deletes the Group row with every membership in it.
CleanupUserGroup(u) ==
    IF "authors" \in groups[u]
      THEN /\ groupRows' = groupRows \ {"authors"}
           /\ groups' = [v \in Users |-> groups[v] \ {"authors"}]
      ELSE UNCHANGED <<groupRows, groups>>

\* author.delete()
DeleteAuthor ==
    /\ phase = "idle"
    /\ \E u \in Users :
         /\ authors[u] > 0
         /\ authors' = [authors EXCEPT ![u] = @ - 1]
         /\ CleanupUserGroup(u)
         /\ ev' = [NoEvent EXCEPT !.kind = "author_delete", !.id = u, !.log = "info"]
    /\ lastSweep' = NoSweep
    /\ UNCHANGED <<users, tokens, now, cache, subs>>
    /\ UNCHANGED postVars
    /\ KeepValues

NextPost ==
    \/ Begin
    \/ Commit
    \/ Rollback
    \/ RunDeferred
    \/ CreatePost
    \/ SavePost
    \/ DeletePost
    \/ M2MChanged

SpecPost == Init /\ [][NextPost]_vars

NextCache ==
    \/ CreatePost
    \/ SavePost
    \/ DeletePost
    \/ CreateComment
    \/ SaveComment
    \/ FillPostKey

SpecCache == Init /\ [][NextCache]_vars

NextSub ==
    \/ CreateSubscription
    \/ SaveSubscription
    \/ DeleteSubscription
    \/ FillSubscriptionKey

SpecSub == Init /\ [][NextSub]_vars

NextToken ==
    \/ CreateToken
    \/ SaveToken
    \/ SocialAccountAdded
    \/ Tick
    \/ CleanupExpiredTokens

SpecToken == Init /\ [][NextToken]_vars

\* A transaction that creates posts, and readers of the post lists.
NextRace ==
    \/ Begin
    \/ Commit
    \/ Rollback
    \/ RunDeferred
    \/ CreatePost
    \/ FillListKey

SpecRace == Init /\ [][NextRace]_vars

\* User creation and registration.
NextSignup ==
    \/ CreateUser
    \/ SaveUser
    \/ UserSignedUp

SpecSignup == Init /\ [][NextSignup]_vars

\* Users, their activation and the deletion of Author rows.
NextUser ==
    \/ CreateUser
    \/ UserSignedUp
    \/ SaveToken
    \/ DeleteAuthor

SpecUser == Init /\ [][NextUser]_vars

\* Post and token signals side by side, in autocommit and then inside an open block.
NextGuard ==
    \/ Begin
    \/ CreatePost
    \/ SavePost
    \/ M2MChanged
    \/ CreateToken
    \/ SaveToken

SpecGuard == Init /\ [][NextGuard]_vars

\* ==================================================================== claims
Count(seq, k) == Cardinality({i \in 1..Len(seq) : seq[i] = k})

\* C1: a run of process_post_notifications that a receiver deferred happens only
\* once the transaction in which the signal fired has committed (in autocommit:
\* once the write is durable), and a rolled-back transaction keeps no callback.
C1_RunsOnlyAfterCommit ==
    /\ lastRun.ran =>
         IF lastRun.txn = 0
           THEN phase = "idle" /\ saved = db
           ELSE outcome[lastRun.txn] = "committed"
    /\ \A i \in 1..Len(pending) : outcome[pending[i].txn] # "aborted"

\* A deferred run after the commit of the second block, the first one rolled back.
C1_Witness ==
    /\ lastRun.ran
    /\ lastRun.txn = 2
    /\ outcome[1] = "aborted"
    /\ outcome[2] = "committed"

\* C2: for every post and transaction at most one deferred action is
\* outstanding, and process_post_notifications runs at most once for them.
C2_OnePerPostAndTransaction ==
    \A p \in Posts :
      /\ Cardinality({i \in 1..Len(pending) : pending[i].post = p}) <= 1
      /\ ranInTxn[p] <= 1

\* C5: when the email collaborator raises during dispatch, nothing leaves
\* process_post_notifications and an error is logged.
C5_EmailFailureIsCaughtAndLogged ==
    (lastRun.ran /\ lastRun.emailFailed) =>
        (~lastRun.raised /\ lastRun.log = "error_critical")

\* The email collaborator raised on the article path of a deferred run.
C5_Witness ==
    /\ lastRun.ran
    /\ lastRun.emailFailed
    /\ lastRun.article = 1
    /\ lastRun.txn # 0

\* C10: the run dispatches on the post type stored when it runs: a stored NEWS
\* post takes the news path only, a stored ARTICLE post the article path only.
C10_DispatchOnStoredType ==
    (lastRun.ran /\ lastRun.found) =>
        /\ lastRun.stored = NEWS => (lastRun.news = 1 /\ lastRun.article = 0)
        /\ lastRun.stored = ARTICLE => (lastRun.news = 0 /\ lastRun.article = 1)

\* The stored type differs from the type of the instance the callback captured.
C10_Witness ==
    /\ lastRun.ran
    /\ lastRun.found
    /\ lastRun.stored # lastRun.snap

\* C9: a Post creation deletes latest_news, news_list, categories_list and the
\* post_{id} of that post, a Comment creation deletes post_{id}_comments and
\* post_{id}_comments_count of its post, and no other key, whether or not a
\* notification was scheduled.
C9_CreationDeletesItsKeys ==
    /\ (ev.kind = "post_save" /\ ev.created) =>
         LET keys == {[tmpl |-> "latest_news", id |-> 0], [tmpl |-> "news_list", id |-> 0],
                      [tmpl |-> "categories_list", id |-> 0], [tmpl |-> "post_{}", id |-> ev.id]}
         IN  Range(ev.deletes) = keys /\ cache \cap keys = {}
    /\ (ev.kind = "comment_save" /\ ev.created) =>
         LET keys == {[tmpl |-> "post_{}_comments", id |-> ev.id],
                      [tmpl |-> "post_{}_comments_count", id |-> ev.id]}
         IN  Range(ev.deletes) = keys /\ cache \cap keys = {}

\* A post was created with a notification scheduled while the other post's key was cached.
C9_Witness ==
    /\ ev.kind = "post_save"
    /\ ev.created
    /\ ev.scheduled
    /\ lastRun.ran
    /\ \E q \in Posts : q # ev.id /\ [tmpl |-> "post_{}", id |-> q] \in cache

\* C8: the creation and the deletion of a Subscription (u, c) each delete
\* user_{u}_subscriptions and category_{c}_subscribers_count once, and a save of
\* a stored Subscription deletes nothing.
C8_SubscriptionInvalidation ==
    LET ku == [tmpl |-> "user_{}_subscriptions", id |-> ev.id]
        kc == [tmpl |-> "category_{}_subscribers_count", id |-> ev.id2]
    IN  /\ ((ev.kind = "subscription_save" /\ ev.created) \/ ev.kind = "subscription_delete") =>
             /\ Len(ev.deletes) = 2
             /\ Count(ev.deletes, ku) = 1
             /\ Count(ev.deletes, kc) = 1
             /\ ku \notin cache
             /\ kc \notin cache
        /\ (ev.kind = "subscription_save" /\ ~ev.created) => ev.deletes = << >>

\* A subscription was deleted after its creation while another user's key stayed cached.
C8_Witness ==
    /\ ev.kind = "subscription_delete"
    /\ <<ev.id, ev.id2>> \notin subs
    /\ \E u \in Users : u # ev.id /\ [tmpl |-> "user_{}_subscriptions", id |-> u] \in cache

\* C3: the save that flips activated from false to true sends one success
\* email and leaves the user in 'authors'; a later save of the activated token
\* sends no success email.
C3_OneNotificationPerActivation ==
    /\ (ev.kind = "token_save" /\ ~ev.created /\ ~ev.was /\ ev.act) =>
         (ev.emails = 1 /\ "authors" \in groups[ev.id])
    /\ (ev.kind = "token_save" /\ ~ev.created /\ ev.was /\ ev.act) => ev.emails = 0

\* C4: no receiver and no deferred action lets an exception of a collaborator out.
C4_NoHandlerPropagates ==
    /\ ~ev.raised
    /\ ~lastRun.raised
    /\ ~lastSweep.raised

\* C6: a sweep leaves every token that is activated or at most 7 days old as it
\* was, and, unless the persistence layer fails, deletes every unactivated token
\* older than 7 days.
C6_SweepDeletesExactlyExpired ==
    [][lastSweep'.ran =>
         \A u \in Users :
           LET qualifies == /\ tokens[u].exists
                            /\ ~tokens[u].activated
                            /\ now - tokens[u].created_at > 7
           IN  /\ ~qualifies => tokens'[u] = tokens[u]
               /\ (qualifies /\ ~lastSweep'.failed) => ~tokens'[u].exists]_vars

\* A sweep deleted one token and kept an unactivated token that is exactly 7 days old.
C6_Witness ==
    /\ lastSweep.ran
    /\ lastSweep.deleted = 1
    /\ \E u \in Users : /\ tokens[u].exists
                        /\ ~tokens[u].activated
                        /\ now - tokens[u].created_at = 7

\* C7: cleanup_expired_tokens returns the number of tokens it deleted.
C7_ReturnsDeletedCount ==
    lastSweep.ran => (~lastSweep.retNone /\ lastSweep.ret = lastSweep.deleted)

\* C11: a run that finds the post deleted since its callback was registered sends
\* on neither path, logs the miss and raises nothing.
C11_MissingPostIsLoggedNoOp ==
    (lastRun.ran /\ ~db[lastRun.post].exists) =>
        /\ lastRun.news = 0
        /\ lastRun.article = 0
        /\ lastRun.log = "error_not_found"
        /\ ~lastRun.raised

\* A deferred run after the commit of a block that created and then deleted the post.
C11_Witness ==
    /\ lastRun.ran
    /\ lastRun.txn # 0
    /\ outcome[lastRun.txn] = "committed"
    /\ ~db[lastRun.post].exists
\* C12: a signal whose guard is false has no side effect: m2m_changed with an
\* action other than post_add and post_save of a stored Post register no callback,
\* delete no cache key and send nothing; post_save of an ActivationToken that is
\* new or not activated sends no email and grants no role.
C12_GuardFalseNoEffect ==
    [][/\ (\/ (ev'.kind = "m2m_changed" /\ ev'.action # "post_add")
           \/ (ev'.kind = "post_save" /\ ~ev'.created)) =>
             /\ pending' = pending
             /\ cache' = cache
             /\ ev'.deletes = << >>
             /\ ~lastRun'.ran
       /\ (ev'.kind = "token_save" /\ (ev'.created \/ ~ev'.act)) =>
             /\ ev'.emails = 0
             /\ ev'.grants = 0
             /\ groups' = groups]_vars

\* A post_remove signal arrived while a callback was queued in the open block.
C12_Witness ==
    /\ ev.kind = "m2m_changed"
    /\ ev.action = "post_remove"
    /\ phase = "atomic"
    /\ pending # << >>

\* C13: after any sequence of User creations (staff or not), saves and user_signed_up
\* events, every created User has exactly one Author row, and no User ever has two.
C13_ExactlyOneAuthor ==
    \A u \in Users :
        /\ users[u].exists => authors[u] = 1
        /\ authors[u] <= 1

C13_Witness ==
    /\ \E u \in Users : users[u].exists /\ users[u].is_staff /\ authors[u] = 1
    /\ \E u \in Users : users[u].exists /\ ~users[u].is_staff /\ authors[u] = 1
    /\ ev.kind = "user_signed_up"
    /\ ev.log = "info"

\* C14: when a save flips a stored token from not activated to activated, the user is
\* in 'authors' when the handler returns, also when the success email raised.
C14_FlipGrantsAuthors ==
    (ev.kind = "token_save" /\ ~ev.created /\ ~ev.was /\ ev.act) =>
        /\ "authors" \in groups[ev.id]
        /\ ~ev.raised

\* C15: when handle_user_signed_up reaches the welcome email, the 'common' membership,
\* the Author and the token are already written and the URL carries that token; when
\* the email raises, nothing propagates and the three stay written.
C15_SignupWritesBeforeMail ==
    (ev.kind = "user_signed_up" /\ ev.emails = 1) =>
        /\ "common" \in groupRows
        /\ "common" \in groups[ev.id]
        /\ authors[ev.id] >= 1
        /\ tokens[ev.id].exists
        /\ ev.urlToken = ev.id
        /\ ~ev.raised

C15_Witness ==
    /\ ev.kind = "user_signed_up"
    /\ ev.emails = 1
    /\ ev.log = "error"
    /\ tokens[ev.id].exists
    /\ authors[ev.id] = 1

\* C16: a social_account_added for a user without a token leaves one activated token
\* and triggers exactly one success email and one 'authors' grant; a further
\* social_account_added for the same user triggers no success email.
C16_SocialSignupOnce ==
    (ev.kind = "social_account_added" /\ ev.act) =>
        /\ tokens[ev.id].exists
        /\ tokens[ev.id].activated
        /\ ev.created => (ev.emails = 1 /\ ev.grants = 1)
        /\ (~ev.created /\ ev.was) => ev.emails = 0

\* C17: deleting an Author removes at most that author's user from 'authors': the
\* Group row 'authors' stays, and every other user's memberships are unchanged.
C17_CleanupTouchesOnlyOwnUser ==
    [][ev'.kind = "author_delete" =>
         /\ "authors" \in groupRows => "authors" \in groupRows'
         /\ \A v \in Users \ {ev'.id} : groups'[v] = groups[v]]_vars

\* C18: whatever the interleaving of a post-creating transaction with a reader that
\* refills a missing list key from committed data, a cached list lists every committed
\* post; and the deletions of two writes leave the same cache in either order.
C18_CachedListHasCommittedPosts ==
    /\ \A k \in ListKeys, p \in Posts :
         (k \in cache /\ saved[p].exists) => p \in val[k]
    /\ \A p, q \in Posts :
         CacheDeleteAll(CacheDeleteAll(cache, PostCacheKeys(p)), PostCacheKeys(q))
           = CacheDeleteAll(CacheDeleteAll(cache, PostCacheKeys(q)), PostCacheKeys(p))

====
